---- MODULE Spec2Model ----
(***************************************************************************)
(* Cortex-Shield: a filtering gateway in front of an OpenAI-compatible     *)
(* chat-completion API.  The model covers the request pipeline of          *)
(* src/main.py (chat_completions), the guardrail engine of src/security.py *)
(* and the retrying dispatcher of src/upstream.py (post_chat_completions). *)
(*                                                                         *)
(* A text is a sequence of lexemes (strings): words, e-mail addresses,     *)
(* IPv4 addresses, digit runs, the newline "\n".  Adjacent lexemes are     *)
(* separated by one blank in the text they stand for, except around "\n".  *)
(* Times are in tenths of a second (0.4 s = 4).                            *)
(***************************************************************************)
EXTENDS Integers, Sequences, FiniteSets, TLC

(***************************************************************************)
(* Bounds of the model.                                                    *)
(***************************************************************************)
MaxMsgs == 2

(***************************************************************************)
(* src/security.py: lexical classes recognised by the three patterns.      *)
(***************************************************************************)
NL == "\n"

\* Lexemes of the shape local@domain.tld (_EMAIL_RE).
EmailLexemes == {"a@b.com"}

\* Lexemes of four dot-separated octets in 0..255 (_IPV4_RE).
IPv4Lexemes == {"10.0.0.1"}

\* The digits of a lexeme that is a run of digits; <<>> for any other lexeme.
DigitsOf(lex) ==
    CASE lex = "4111111111111111" -> <<4,1,1,1,1,1,1,1,1,1,1,1,1,1,1,1>>
      [] lex = "4111111111111112" -> <<4,1,1,1,1,1,1,1,1,1,1,1,1,1,1,2>>
      [] lex = "123456789012"     -> <<1,2,3,4,5,6,7,8,9,0,1,2>>
      [] lex = "411111111111"     -> <<4,1,1,1,1,1,1,1,1,1,1,1>>
      [] lex = "1111"             -> <<1,1,1,1>>
      [] lex = "123"              -> <<1,2,3>>
      [] OTHER                    -> <<>>

\* _CC_RE on one lexeme: a run of 13 to 19 digits between word boundaries.
CcCandidate(lex) == Len(DigitsOf(lex)) >= 13 /\ Len(DigitsOf(lex)) <= 19

\* The loop body of _luhn_check for the digit at 0-based index i.
LuhnTerm(i, d, parity) ==
    IF i % 2 = parity
      THEN (IF 2 * d > 9 THEN 2 * d - 9 ELSE 2 * d)
      ELSE d

RECURSIVE LuhnSum(_, _, _)
LuhnSum(digits, n, parity) ==
    IF n = 0 THEN 0
    ELSE LuhnSum(digits, n - 1, parity) + LuhnTerm(n - 1, digits[n], parity)

_luhn_check(digits) ==
    IF Len(digits) < 13 \/ Len(digits) > 19
      THEN FALSE
      ELSE LuhnSum(digits, Len(digits), Len(digits) % 2) % 10 = 0

\* _EMAIL_RE.sub and _IPV4_RE.sub of _regex_redact: both patterns match
\* inside one lexeme.
EmailSub(text) ==
    [i \in 1..Len(text) |-> IF text[i] \in EmailLexemes THEN "[REDACTED_EMAIL]" ELSE text[i]]

Ipv4Sub(text) ==
    [i \in 1..Len(text) |-> IF text[i] \in IPv4Lexemes THEN "[REDACTED_IP]" ELSE text[i]]

\* "".join(ch for ch in candidate if ch.isdigit()): the digits of a candidate.
RECURSIVE Compact(_)
Compact(candidate) ==
    IF Len(candidate) = 0 THEN <<>>
    ELSE DigitsOf(Head(candidate)) \o Compact(Tail(candidate))

\* _CC_RE, (?:\d[ -]*?){13,19} between word boundaries, tried at the start
\* of a digit run: j is the last lexeme taken, k the digits taken.  The
\* repetition stops at the first end of a run where it has 13 digits or
\* more; with fewer it crosses the blank into the next run; it fails when
\* the run it is in takes it past 19.  The result is the position of the
\* last lexeme of the match, 0 when there is none.
RECURSIVE CcMatchEnd(_, _, _)
CcMatchEnd(text, j, k) ==
    IF k > 19 THEN 0
    ELSE IF k >= 13 THEN j
    ELSE IF j < Len(text) /\ DigitsOf(text[j + 1]) # <<>>
      THEN CcMatchEnd(text, j + 1, k + Len(DigitsOf(text[j + 1])))
    ELSE 0

\* cc_replacer always redacting the candidate.
cc_replacer_NoLuhn(candidate) == <<"[REDACTED_CREDIT_CARD]">>

\* cc_replacer: the sentinel for a candidate that passes Luhn, else the
\* candidate itself.
cc_replacer(candidate) ==
    IF _luhn_check(Compact(candidate)) THEN <<"[REDACTED_CREDIT_CARD]">> ELSE candidate

\* _CC_RE.sub(cc_replacer, text, count=1): only the first match is replaced.
RECURSIVE CcSub_FirstOnly(_, _)
CcSub_FirstOnly(text, i) ==
    IF i > Len(text) THEN <<>>
    ELSE LET j == IF DigitsOf(text[i]) # <<>>
                    THEN CcMatchEnd(text, i, Len(DigitsOf(text[i])))
                    ELSE 0
         IN  IF j = 0
               THEN <<text[i]>> \o CcSub_FirstOnly(text, i + 1)
               ELSE cc_replacer(SubSeq(text, i, j)) \o SubSeq(text, j + 1, Len(text))

\* _CC_RE.sub(cc_replacer, text) from lexeme i on: matches are found left to
\* right and do not overlap.
RECURSIVE CcSub(_, _)
CcSub(text, i) ==
    IF i > Len(text) THEN <<>>
    ELSE LET j == IF DigitsOf(text[i]) # <<>>
                    THEN CcMatchEnd(text, i, Len(DigitsOf(text[i])))
                    ELSE 0
         IN  IF j = 0
               THEN <<text[i]>> \o CcSub(text, i + 1)
               ELSE cc_replacer(SubSeq(text, i, j)) \o CcSub(text, j + 1)

\* (text, was_redacted) of _regex_redact: email, then IPv4, then card.
_regex_redact(text) ==
    LET out == CcSub(Ipv4Sub(EmailSub(text)), 1)
    IN  [text |-> out, was_redacted |-> out # text]

(***************************************************************************)
(* src/security.py: the delegated (Presidio) redactor.  The delegate is an *)
(* external engine: what it does on one call is an input of the model.     *)
(*   how = "import_error"   the imports raise                              *)
(*   how = "runtime_error"  engine construction, analyze or anonymize raise*)
(*   how = "analyzed"       analyze returns the findings `found`, a set of *)
(*                          positions of the text                          *)
(***************************************************************************)
\* Positions the analyzer can report: EMAIL_ADDRESS, IP_ADDRESS, CREDIT_CARD.
EntityPositions(text) ==
    {i \in 1..Len(text) :
        \/ text[i] \in EmailLexemes
        \/ text[i] \in IPv4Lexemes
        \/ CcCandidate(text[i])}

\* The replacement the anonymizer's operators give a finding.
OperatorValue(lex) ==
    IF lex \in EmailLexemes THEN "[REDACTED_EMAIL]"
    ELSE IF lex \in IPv4Lexemes THEN "[REDACTED_IP]"
    ELSE IF CcCandidate(lex) THEN "[REDACTED_CREDIT_CARD]"
    ELSE "[REDACTED]"

DelegateCalls(text) ==
    {[how |-> "import_error", found |-> {}], [how |-> "runtime_error", found |-> {}]}
    \cup {[how |-> "analyzed", found |-> f] : f \in SUBSET EntityPositions(text)}

\* _presidio_redact whose second try returns the text as it is.
_presidio_redact_FailOpen(text, call) ==
    IF call.how = "import_error"
      THEN _regex_redact(text)
    ELSE IF call.how = "runtime_error" \/ call.found = {}
      THEN [text |-> text, was_redacted |-> FALSE]
    ELSE LET out == [i \in 1..Len(text) |->
                        IF i \in call.found THEN OperatorValue(text[i]) ELSE text[i]]
         IN  [text |-> out, was_redacted |-> out # text]

_presidio_redact(text, call) ==
    IF call.how \in {"import_error", "runtime_error"}
      THEN _regex_redact(text)
    ELSE IF call.found = {}
      THEN [text |-> text, was_redacted |-> FALSE]
    ELSE LET out == [i \in 1..Len(text) |->
                        IF i \in call.found THEN OperatorValue(text[i]) ELSE text[i]]
         IN  [text |-> out, was_redacted |-> out # text]

(***************************************************************************)
(* src/security.py: the injection signatures.  Patterns are matched        *)
(* ignoring case; "." does not match a newline, so the parts of a          *)
(* signature joined by ".*" have to lie on one line.                       *)
(***************************************************************************)
Lower(lex) ==
    CASE lex = "Ignore"   -> "ignore"
      [] lex = "IGNORE"   -> "ignore"
      [] lex = "PREVIOUS" -> "previous"
      [] lex = "DAN"      -> "dan"
      [] OTHER            -> lex

\* No newline at the positions i..j of the text.
SameLine(text, i, j) == \A k \in i..j : text[k] # NL

MatchesSignature(sig_id, text) ==
    LET n == Len(text)
        w(i) == Lower(text[i])
    IN  CASE sig_id = "ignore_previous_instructions" ->
               \E i, j, k \in 1..n :
                   /\ i < j /\ j < k
                   /\ w(i) = "ignore" /\ w(j) = "previous" /\ w(k) = "instructions"
                   /\ SameLine(text, i, k)
          [] sig_id = "system_override" ->
               \E i, j \in 1..n :
                   /\ i < j
                   /\ w(i) = "system" /\ w(j) = "override"
                   /\ SameLine(text, i, j)
          [] sig_id = "dan" ->
               \E i \in 1..n : w(i) = "dan"
          [] sig_id = "jailbreak" ->
               \/ \E i \in 1..n : w(i) = "jailbreak"
               \/ \E i \in 1..n :
                    /\ i + 2 <= n
                    /\ w(i) = "do" /\ w(i + 1) = "anything" /\ w(i + 2) = "now"

\* The identifiers of _PROMPT_INJECTION_SIGNATURES, in table order.
_PROMPT_INJECTION_SIGNATURES ==
    <<"ignore_previous_instructions", "system_override", "dan", "jailbreak">>

\* The loop of detect_prompt_injection returning at the first hit.
HitsUpTo_FirstHit(text, n) ==
    LET matching == {k \in 1..n : MatchesSignature(_PROMPT_INJECTION_SIGNATURES[k], text)}
    IN  IF matching = {} THEN <<>>
        ELSE <<_PROMPT_INJECTION_SIGNATURES[CHOOSE k \in matching : \A h \in matching : k <= h]>>

\* Lines 133-139: every signature of the table is searched for, in table
\* order; the identifier of each one found is appended once.
RECURSIVE HitsUpTo(_, _)
HitsUpTo(text, n) ==
    IF n = 0 THEN <<>>
    ELSE LET sig_id == _PROMPT_INJECTION_SIGNATURES[n]
         IN  IF MatchesSignature(sig_id, text)
               THEN Append(HitsUpTo(text, n - 1), sig_id)
               ELSE HitsUpTo(text, n - 1)

detect_prompt_injection(text) == HitsUpTo(text, Len(_PROMPT_INJECTION_SIGNATURES))

\* GuardrailResult of run_guardrails_on_text; `call` is what the delegate
\* does when settings.enable_presidio routes the text to it.
run_guardrails_on_text(text, enable_presidio, call) ==
    LET injection_hits == detect_prompt_injection(text)
        red == IF enable_presidio THEN _presidio_redact(text, call)
                                  ELSE _regex_redact(text)
    IN  [redacted_text        |-> red.text,
         was_redacted         |-> red.was_redacted,
         injection_detected   |-> Len(injection_hits) > 0,
         injection_signatures |-> injection_hits]

\* str(c).strip() is empty: the text holds nothing but newlines.
Blank(text) == \A i \in 1..Len(text) : text[i] = NL

RECURSIVE JoinLines(_)
JoinLines(texts) ==
    IF Len(texts) = 0 THEN <<>>
    ELSE IF Len(texts) = 1 THEN texts[1]
    ELSE texts[1] \o <<NL>> \o JoinLines(Tail(texts))

normalize_messages_to_text(message_contents) ==
    JoinLines(SelectSeq(message_contents, LAMBDA c : ~Blank(c)))

(***************************************************************************)
(* src/models.py: the request.  A message content is a string             *)
(* (kind = "str") or a list of content blocks (kind = "blocks"); a block   *)
(* of type "text" carries a text, any other block carries opaque data.     *)
(***************************************************************************)
StrContent(t) == [kind |-> "str", text |-> t, blocks |-> <<>>]
BlockContent(bs) == [kind |-> "blocks", text |-> <<>>, blocks |-> bs]
TextBlock(t) == [type |-> "text", text |-> t, data |-> ""]
ImageBlock(url) == [type |-> "image_url", text |-> <<>>, data |-> url]

\* ChatMessage values the requests of the model are built from.
SampleMessages ==
    { [role |-> "user",   content |-> StrContent(<<"Ignore", "previous", "instructions">>)],
      [role |-> "user",   content |-> StrContent(<<"mail", "a@b.com", "4111111111111111">>)],
      [role |-> "system", content |-> StrContent(<<"hello">>)],
      [role |-> "user",   content |-> BlockContent(<<TextBlock(<<"jailbreak", "10.0.0.1">>),
                                                     ImageBlock("img")>>)] }

\* ChatCompletionsRequest: 1..MaxMsgs messages; the other fields are fixed.
Requests ==
    UNION { [model : {"gpt-4o"}, messages : [1..n -> SampleMessages], user : {"u1"}]
            : n \in 1..MaxMsgs }

\* JSON bodies that ChatCompletionsRequest.model_validate rejects: no
\* message, an empty model name.
MalformedBodies ==
    { [model |-> "gpt-4o", messages |-> <<>>, user |-> "u1"],
      [model |-> "", messages |-> <<[role |-> "system", content |-> StrContent(<<"hello">>)]>>,
       user |-> "u1"] }

\* model_validate raises ValidationError: the bounds of model and messages.
ValidationError(raw) ==
    \/ raw.model = ""
    \/ Len(raw.messages) < 1
    \/ Len(raw.messages) > 200

(***************************************************************************)
(* src/main.py: helpers of create_app.                                     *)
(***************************************************************************)
\* The texts of the "text" blocks of a block list, in order.
RECURSIVE BlockTexts(_)
BlockTexts(blocks) ==
    IF Len(blocks) = 0 THEN <<>>
    ELSE (IF Head(blocks).type = "text" THEN <<Head(blocks).text>> ELSE <<>>)
         \o BlockTexts(Tail(blocks))

RECURSIVE MessageTexts(_)
MessageTexts(messages) ==
    IF Len(messages) = 0 THEN <<>>
    ELSE (IF Head(messages).content.kind = "str"
            THEN <<Head(messages).content.text>>
            ELSE BlockTexts(Head(messages).content.blocks))
         \o MessageTexts(Tail(messages))

_extract_message_texts(req) == MessageTexts(req.messages)

\* What the delegate does on each text field of a request, in extraction
\* order; the delegate is called only when settings.enable_presidio is set.
NotCalled == [how |-> "not_called", found |-> {}]

CallsFor(text, enable_presidio) ==
    IF enable_presidio THEN DelegateCalls(text) ELSE {NotCalled}

FieldCalls(texts, enable_presidio) ==
    LET all == UNION {CallsFor(texts[i], enable_presidio) : i \in 1..Len(texts)}
    IN  {c \in [1..Len(texts) -> all] :
            \A i \in 1..Len(texts) : c[i] \in CallsFor(texts[i], enable_presidio)}

\* Number of text fields in the messages before message m / before block b.
FieldsBefore(messages, m) == Len(MessageTexts(SubSeq(messages, 1, m - 1)))
BlockFieldsBefore(blocks, b) == Len(BlockTexts(SubSeq(blocks, 1, b - 1)))

\* _apply_redaction_to_request that keeps of a block that is not a text
\* block only its type.
_apply_redaction_to_request_TypeOnly(req, enable_presidio, calls) ==
    LET redact(t, k) == run_guardrails_on_text(t, enable_presidio, calls[k]).redacted_text
        newContent(m) ==
            LET content == req.messages[m].content
                base == FieldsBefore(req.messages, m)
            IN  IF content.kind = "str"
                  THEN [content EXCEPT !.text = redact(content.text, base + 1)]
                  ELSE [content EXCEPT !.blocks =
                          [b \in 1..Len(content.blocks) |->
                              IF content.blocks[b].type = "text"
                                THEN [content.blocks[b] EXCEPT !.text =
                                        redact(content.blocks[b].text,
                                               base + BlockFieldsBefore(content.blocks, b) + 1)]
                                ELSE [content.blocks[b] EXCEPT !.data = ""]]]
    IN  [req EXCEPT !.messages =
            [m \in 1..Len(req.messages) |->
                [req.messages[m] EXCEPT !.content = newContent(m)]]]

_apply_redaction_to_request(req, enable_presidio, calls) ==
    LET redact(t, k) == run_guardrails_on_text(t, enable_presidio, calls[k]).redacted_text
        newContent(m) ==
            LET content == req.messages[m].content
                base == FieldsBefore(req.messages, m)
            IN  IF content.kind = "str"
                  THEN [content EXCEPT !.text = redact(content.text, base + 1)]
                  ELSE [content EXCEPT !.blocks =
                          [b \in 1..Len(content.blocks) |->
                              IF content.blocks[b].type = "text"
                                THEN [content.blocks[b] EXCEPT !.text =
                                        redact(content.blocks[b].text,
                                               base + BlockFieldsBefore(content.blocks, b) + 1)]
                                ELSE content.blocks[b]]]
    IN  [req EXCEPT !.messages =
            [m \in 1..Len(req.messages) |->
                [req.messages[m] EXCEPT !.content = newContent(m)]]]

\* src/monitoring.py: the token estimator, one token per lexeme.
estimate_tokens(model, text) == Len(text)

(***************************************************************************)
(* src/upstream.py: constants of post_chat_completions.                    *)
(***************************************************************************)
\* The transient set taken to be every client or server error status.
_TRANSIENT_STATUS_CODES_AllErrors == {400, 408, 429, 500, 502, 503, 504}

_TRANSIENT_STATUS_CODES == {408, 429, 500, 502, 503, 504}
max_attempts == 3
backoff == 4

\* What the upstream can answer to one POST: a response (status and body)
\* or an exception raised by client.post.
UpstreamBodies ==
    { [json |-> TRUE,  content |-> <<"ok", "fine">>],   \* choices[0].message.content
      [json |-> TRUE,  content |-> <<>>],               \* JSON without assistant text
      [json |-> FALSE, content |-> <<>>] }              \* not JSON
StatusCodes == {200, 400} \cup _TRANSIENT_STATUS_CODES
\* httpx.TimeoutException and httpx.NetworkError; of the exceptions that
\* are neither, httpx.ProtocolError, and UnicodeEncodeError, a ValueError,
\* which client.post raises when a header value (X-Client-Id, taken from
\* the inbound request) does not encode as ASCII.
NetworkExceptions == {"TimeoutException", "NetworkError"}
ValueErrors == {"UnicodeEncodeError"}
Exceptions == NetworkExceptions \cup {"ProtocolError"} \cup ValueErrors
NoBody == [json |-> FALSE, content |-> <<>>]
Outcomes ==
    [kind : {"response"}, status_code : StatusCodes, body : UpstreamBodies, exc : {""}]
    \cup [kind : {"raise"}, status_code : {0}, body : {NoBody}, exc : Exceptions]
Pending == [kind |-> "pending", status_code |-> 0, body |-> NoBody, exc |-> ""]

(***************************************************************************)
(* State.  Every variable but `settings` is a function of the request:     *)
(* the locals of one execution of chat_completions and of its call of      *)
(* post_chat_completions, and what an observer saw of it.                  *)
(***************************************************************************)
Reqs == {"r1", "r2"}

VARIABLES
    settings,        \* block_on_prompt_injection, enable_presidio, rate_limit_rpm
    pc,              \* where the execution stands
    headers,         \* the X-Client-Id header ("" when absent) and the peer address
    hits,            \* the limiter's storage: requests counted per key in this minute
    body,            \* the JSON body; the validated ChatCompletionsRequest
    inj_check,       \* injection fields of the scan's GuardrailResult
    redacted_req,    \* <<request>> once _apply_redaction_to_request returned
    prompt_tokens,
    attempt,         \* loop variable of post_chat_completions, 0 before the call
    last_exc,
    outcome,         \* what the POST of the current attempt ended with
    upstream_resp,   \* <<outcome>> once post_chat_completions returned
    response,        \* <<JSONResponse>> once the handler returned
    posts,           \* payload of every POST issued, in order
    waits,           \* delay of every asyncio.sleep, in order
    retried,         \* for every retried attempt: "transient" or "network"
    stages,          \* the stages performed, in order
    billing,         \* billing_simulation events emitted, in order
    fn_pc,           \* a direct call of a function of src/security.py: its position
    arg_text,        \* the text it is called on
    arg_digits,      \* the digit string _luhn_check is called on
    guard_calls,     \* <<the call of run_guardrails_on_text and its result>>
    redact_passes,   \* the results of the successive calls of _regex_redact
    luhn_result,     \* <<result of _luhn_check>>
    request_log,     \* "request" events the logging middleware emitted, in order
    mw_exit          \* how the middleware was left: "", "return" or "raise"

fnVars == <<fn_pc, arg_text, arg_digits, guard_calls, redact_passes, luhn_result>>

pipelineVars == <<settings, pc, headers, hits, body, inj_check, redacted_req, prompt_tokens,
                  attempt, last_exc, outcome, upstream_resp, response, posts, waits, retried,
                  stages, billing>>

logVars == <<request_log, mw_exit>>

vars == <<pipelineVars, fnVars, logVars>>

dispatchVars == <<attempt, last_exc, outcome, upstream_resp, posts, waits, retried>>

NoInjCheck == [injection_detected |-> FALSE, injection_signatures |-> <<>>]

\* The request held by a slot no request has arrived in.
UnusedRequest == CHOOSE q \in Requests : Len(q.messages) = 1

\* src/config.py, line 36: the default of RATE_LIMIT_RPM.
rate_limit_rpm == 100

\* src/rate_limit.py, lines 18-25: the limiter's key of a request.
_key_func(hdrs) ==
    IF hdrs.client_id # "" THEN <<"client", hdrs.client_id>> ELSE <<"ip", hdrs.addr>>

ClientIds == {"", "c1"}
Addrs == {"10.1.1.1"}
Keys == {_key_func(h) : h \in [client_id : ClientIds, addr : Addrs]}

\* No direct call of a function of src/security.py is under way.
FnIdle ==
    /\ fn_pc = "off"
    /\ arg_text = <<>>
    /\ arg_digits = <<>>
    /\ guard_calls = <<>>
    /\ redact_passes = <<>>
    /\ luhn_result = <<>>

\* The settings of a deployment with the default rate limit.
Settings ==
    [block_on_prompt_injection : BOOLEAN, enable_presidio : BOOLEAN,
     rate_limit_rpm : {rate_limit_rpm}]

\* The state with the requests of `started` received, their bodies drawn
\* from `bodies`, their headers from `hdrs`, the settings from `confs`; the
\* other slots unused.
PipelineInit(started, bodies, hdrs, confs) ==
    /\ settings \in confs
    /\ pc = [r \in Reqs |-> IF r \in started THEN "received" ELSE "idle"]
    /\ headers \in {[r \in Reqs |-> IF r \in started THEN h[r]
                                    ELSE [client_id |-> "", addr |-> "10.1.1.1"]] :
                       h \in [started -> hdrs]}
    /\ hits = [k \in Keys |-> 0]
    /\ body \in {[r \in Reqs |-> IF r \in started THEN f[r] ELSE UnusedRequest] :
                    f \in [started -> bodies]}
    /\ inj_check = [r \in Reqs |-> NoInjCheck]
    /\ redacted_req = [r \in Reqs |-> <<>>]
    /\ prompt_tokens = [r \in Reqs |-> 0]
    /\ attempt = [r \in Reqs |-> 0]
    /\ last_exc = [r \in Reqs |-> ""]
    /\ outcome = [r \in Reqs |-> Pending]
    /\ upstream_resp = [r \in Reqs |-> <<>>]
    /\ response = [r \in Reqs |-> <<>>]
    /\ posts = [r \in Reqs |-> <<>>]
    /\ waits = [r \in Reqs |-> <<>>]
    /\ retried = [r \in Reqs |-> <<>>]
    /\ stages = [r \in Reqs |-> <<>>]
    /\ billing = [r \in Reqs |-> <<>>]
    /\ request_log = [r \in Reqs |-> <<>>]
    /\ mw_exit = [r \in Reqs |-> ""]

\* One request, any body, with a client id, under the default limit.
InitWith(started) ==
    /\ PipelineInit(started, Requests \cup MalformedBodies,
                    {[client_id |-> "c1", addr |-> "10.1.1.1"]}, Settings)
    /\ FnIdle

Init == InitWith({"r1"})

(***************************************************************************)
(* src/main.py: chat_completions.                                          *)
(***************************************************************************)
\* The JSONResponse of the handler.  `data` is <<body>> for a pass-through,
\* `retry_after` the Retry-After header (0: none).
ErrorResponse(status_code, code, signatures, upstream_status) ==
    [status_code |-> status_code, code |-> code, signatures |-> signatures,
     upstream_status |-> upstream_status, retry_after |-> 0, data |-> <<>>]

\* PassThrough answering an upstream error status with a gateway error.
PassThrough_WrapsErrors(resp) ==
    IF resp.status_code >= 400
      THEN [status_code |-> 502, code |-> "upstream_error", signatures |-> <<>>,
            upstream_status |-> resp.status_code, retry_after |-> 0, data |-> <<>>]
      ELSE [status_code |-> resp.status_code, code |-> "", signatures |-> <<>>,
            upstream_status |-> 0, retry_after |-> 0, data |-> <<resp.body>>]

\* Line 248: the upstream's status code and JSON body as they came.
PassThrough(resp) ==
    [status_code |-> resp.status_code, code |-> "", signatures |-> <<>>,
     upstream_status |-> 0, retry_after |-> 0, data |-> <<resp.body>>]

\* BlockRequest with the policy flag read the wrong way round.
BlockRequest_PolicyInverted(res) ==
    res.injection_detected /\ ~settings.block_on_prompt_injection

\* Lines 106-123: the dependency _validated_body.  For a body that fails
\* validation it raises ValueError(err.model_dump()).  FastAPI resolves the
\* dependency before it calls the endpoint, so the except of line 188 is
\* never reached, and no exception handler is registered for ValueError:
\* the request ends with an unhandled exception.
_validated_body(r) ==
    /\ pc[r] = "received"
    /\ pc' = [pc EXCEPT ![r] = IF ValidationError(body[r]) THEN "crashed" ELSE "limit_check"]
    /\ UNCHANGED <<settings, headers, hits, body, inj_check, redacted_req, prompt_tokens,
                   response, stages, billing>>
    /\ UNCHANGED dispatchVars
    /\ UNCHANGED fnVars
    /\ UNCHANGED logVars

\* Line 126, @limiter.limit(f"{settings.rate_limit_rpm}/minute"): the
\* budget of the key is used up.
Exceeded(key) == hits[key] >= settings.rate_limit_rpm

\* RateLimitExceeded as the limiter raises it: with or without the
\* attribute retry_after.
RateLimitExceptions == {[retry_after |-> <<>>], [retry_after |-> <<30>>]}

\* rate_limit_exceeded_handler answering without the Retry-After header.
rate_limit_exceeded_handler_NoRetryAfter(exc) ==
    ErrorResponse(429, "rate_limit_exceeded", <<>>, 0)

\* src/rate_limit.py, lines 36-51.
rate_limit_exceeded_handler(exc) ==
    [ErrorResponse(429, "rate_limit_exceeded", <<>>, 0) EXCEPT
        !.retry_after = IF exc.retry_after # <<>> THEN exc.retry_after[1] ELSE 60]

\* Line 126 and create_app line 41: the limiter counts the request under
\* its key before the endpoint body runs; a request over the budget raises
\* RateLimitExceeded, which the handler registered for 429 answers.
limiter_limit(r) ==
    /\ pc[r] = "limit_check"
    /\ LET key == _key_func(headers[r])
       IN  IF Exceeded(key)
             THEN /\ \E exc \in RateLimitExceptions :
                       response' = [response EXCEPT ![r] = <<rate_limit_exceeded_handler(exc)>>]
                  /\ pc' = [pc EXCEPT ![r] = "rate_limited"]
                  /\ UNCHANGED hits
             ELSE /\ hits' = [hits EXCEPT ![key] = @ + 1]
                  /\ pc' = [pc EXCEPT ![r] = "validated"]
                  /\ UNCHANGED response
    /\ UNCHANGED <<settings, headers, body, inj_check, redacted_req, prompt_tokens,
                   stages, billing>>
    /\ UNCHANGED dispatchVars
    /\ UNCHANGED fnVars
    /\ UNCHANGED logVars

\* Line 144: the request is blocked.
BlockRequest(res) == res.injection_detected /\ settings.block_on_prompt_injection

\* Lines 139-157: scan the joined text; block or go on.
Scan(r) ==
    /\ pc[r] = "validated"
    /\ LET message_texts == _extract_message_texts(body[r])
           joined == normalize_messages_to_text(message_texts)
       IN  \E call \in CallsFor(joined, settings.enable_presidio) :
             LET res == run_guardrails_on_text(joined, settings.enable_presidio, call)
             IN  /\ inj_check' = [inj_check EXCEPT ![r] =
                        [injection_detected   |-> res.injection_detected,
                         injection_signatures |-> res.injection_signatures]]
                 /\ IF BlockRequest(res)
                      THEN /\ response' = [response EXCEPT ![r] =
                                  <<ErrorResponse(400, "prompt_injection_detected",
                                                  res.injection_signatures, 0)>>]
                           /\ stages' = [stages EXCEPT ![r] = @ \o <<"scan", "return">>]
                           /\ pc' = [pc EXCEPT ![r] = "blocked"]
                      ELSE /\ response' = response
                           /\ stages' = [stages EXCEPT ![r] = Append(@, "scan")]
                           /\ pc' = [pc EXCEPT ![r] = "redacting"]
    /\ UNCHANGED <<settings, body, redacted_req, prompt_tokens, billing>>
    /\ UNCHANGED dispatchVars
    /\ UNCHANGED <<headers, hits>>
    /\ UNCHANGED fnVars
    /\ UNCHANGED logVars

\* Line 160: redact the request.
Redact(r) ==
    /\ pc[r] = "redacting"
    /\ \E calls \in FieldCalls(_extract_message_texts(body[r]), settings.enable_presidio) :
         redacted_req' = [redacted_req EXCEPT ![r] =
             <<_apply_redaction_to_request(body[r], settings.enable_presidio, calls)>>]
    /\ stages' = [stages EXCEPT ![r] = Append(@, "redact")]
    /\ pc' = [pc EXCEPT ![r] = "estimating"]
    /\ UNCHANGED <<settings, body, inj_check, prompt_tokens, response, billing>>
    /\ UNCHANGED dispatchVars
    /\ UNCHANGED <<headers, hits>>
    /\ UNCHANGED fnVars
    /\ UNCHANGED logVars

\* BillingEvent dropping the completion estimate.
BillingEvent_PromptOnly(p, c) ==
    [prompt_tokens_estimated |-> p, completion_tokens_estimated |-> -1]

\* A billing_simulation event; completion_tokens -1 stands for None.
BillingEvent(p, c) == [prompt_tokens_estimated |-> p, completion_tokens_estimated |-> c]

\* Lines 162-170: estimate the prompt tokens and log.  The estimator
\* (tiktoken) and the write to stdout are collaborators that can raise;
\* nothing in the handler catches that.
EstimatePrompt(r) ==
    /\ pc[r] = "estimating"
    /\ LET prompt_text ==
               normalize_messages_to_text(_extract_message_texts(redacted_req[r][1]))
           tokens == estimate_tokens(redacted_req[r][1].model, prompt_text)
       IN  \E how \in {"ok", "estimate_raises", "log_raises"} :
             /\ prompt_tokens' = [prompt_tokens EXCEPT ![r] =
                    IF how = "estimate_raises" THEN @ ELSE tokens]
             /\ billing' = [billing EXCEPT ![r] =
                    IF how = "ok" THEN Append(@, BillingEvent(tokens, -1)) ELSE @]
             /\ stages' = [stages EXCEPT ![r] =
                    IF how = "estimate_raises" THEN Append(@, "estimate_prompt")
                    ELSE @ \o <<"estimate_prompt", "log">>]
             /\ pc' = [pc EXCEPT ![r] = IF how = "ok" THEN "dispatching" ELSE "crashed"]
    /\ UNCHANGED <<settings, body, inj_check, redacted_req, response>>
    /\ UNCHANGED dispatchVars
    /\ UNCHANGED <<headers, hits>>
    /\ UNCHANGED fnVars
    /\ UNCHANGED logVars

\* upstream_payload dumping the request as it came in.
upstream_payload_Unredacted(r) == body[r]

\* Lines 173-178: the upstream payload is the dump of the redacted request.
upstream_payload(r) ==
    IF redacted_req[r][1].model = ""
      THEN [redacted_req[r][1] EXCEPT !.model = "gpt-4o-mini"]
      ELSE redacted_req[r][1]

\* Lines 180-187 and upstream.py 45-59: call post_chat_completions, which
\* issues the POST of attempt 1 and waits for it.
StartDispatch(r) ==
    /\ pc[r] = "dispatching"
    /\ attempt' = [attempt EXCEPT ![r] = 1]
    /\ posts' = [posts EXCEPT ![r] = Append(@, upstream_payload(r))]
    /\ stages' = [stages EXCEPT ![r] = Append(@, "dispatch")]
    /\ pc' = [pc EXCEPT ![r] = "posting"]
    /\ UNCHANGED <<settings, body, inj_check, redacted_req, prompt_tokens, response, billing,
                   last_exc, outcome, upstream_resp, waits, retried>>
    /\ UNCHANGED <<headers, hits>>
    /\ UNCHANGED fnVars
    /\ UNCHANGED logVars

(***************************************************************************)
(* src/upstream.py: the retry loop of post_chat_completions.  The awaited  *)
(* POST and the awaited sleep are its two suspension points.               *)
(***************************************************************************)
\* RetryStatus that keeps the last two attempts free of retries.
RetryStatus_OffByOne(status_code, k) ==
    status_code \in _TRANSIENT_STATUS_CODES /\ k < max_attempts - 1

\* RetryStatus without the test on the attempt count.
RetryStatus_Unbounded(status_code, k) == status_code \in _TRANSIENT_STATUS_CODES

\* Line 60: the response is retried.
RetryStatus(status_code, k) == status_code \in _TRANSIENT_STATUS_CODES /\ k < max_attempts

\* The except clause catching timeouts only.
Caught_TimeoutOnly(exc) == exc = "TimeoutException"

\* Line 64: the exceptions the except clause catches.
Caught(exc) == exc \in NetworkExceptions

\* RetryException giving up one attempt early.
RetryException_OffByOne(k) == k < max_attempts - 1

\* Line 66: the caught exception is retried.
RetryException(k) == k < max_attempts

\* Line 61: the delay slept after attempt k answered a transient status.
SleepAfterStatus(k) == backoff * k

\* The delay after an exception not scaled by the attempt number.
SleepAfterException_Constant(k) == backoff

\* Line 67: the delay slept after attempt k raised a caught exception.
SleepAfterException(k) == backoff * k

\* A raised exception as the outcome of the call.
Raise(exc) == [kind |-> "raise", status_code |-> 0, body |-> NoBody, exc |-> exc]

\* Lines 59-69: the POST of the current attempt ends with outcome o, and the
\* loop runs on to its next suspension point or out of the function.
PostEndsWith(r, outcomes) ==
    /\ pc[r] = "posting"
    /\ \E o \in outcomes :
         /\ outcome' = [outcome EXCEPT ![r] = o]
         /\ IF o.kind = "response"
              THEN IF RetryStatus(o.status_code, attempt[r])
                     THEN /\ waits' = [waits EXCEPT ![r] = Append(@, SleepAfterStatus(attempt[r]))]
                          /\ retried' = [retried EXCEPT ![r] = Append(@, "transient")]
                          /\ pc' = [pc EXCEPT ![r] = "sleeping"]
                          /\ UNCHANGED <<last_exc, upstream_resp>>
                     ELSE /\ upstream_resp' = [upstream_resp EXCEPT ![r] = <<o>>]
                          /\ pc' = [pc EXCEPT ![r] = "returned"]
                          /\ UNCHANGED <<last_exc, waits, retried>>
              ELSE IF Caught(o.exc)
                     THEN /\ last_exc' = [last_exc EXCEPT ![r] = o.exc]
                          /\ IF RetryException(attempt[r])
                               THEN /\ waits' = [waits EXCEPT ![r] =
                                                    Append(@, SleepAfterException(attempt[r]))]
                                    /\ retried' = [retried EXCEPT ![r] = Append(@, "network")]
                                    /\ pc' = [pc EXCEPT ![r] = "sleeping"]
                               ELSE /\ pc' = [pc EXCEPT ![r] = "raised"]
                                    /\ UNCHANGED <<waits, retried>>
                          /\ UNCHANGED upstream_resp
                     ELSE /\ pc' = [pc EXCEPT ![r] = "raised"]
                          /\ UNCHANGED <<last_exc, upstream_resp, waits, retried>>
    /\ UNCHANGED <<settings, body, inj_check, redacted_req, prompt_tokens, response,
                   attempt, posts, stages, billing>>
    /\ UNCHANGED <<headers, hits>>
    /\ UNCHANGED fnVars
    /\ UNCHANGED logVars

PostEnds(r) == PostEndsWith(r, Outcomes)

\* SleepEnds with the loop variable shared by all executions.
SleepEnds_SharedAttempt(r) ==
    /\ pc[r] = "sleeping"
    /\ IF attempt[r] < max_attempts
         THEN /\ attempt' = [q \in Reqs |-> attempt[r] + 1]
              /\ posts' = [posts EXCEPT ![r] = Append(@, posts[r][1])]
              /\ outcome' = [outcome EXCEPT ![r] = Pending]
              /\ pc' = [pc EXCEPT ![r] = "posting"]
         ELSE /\ outcome' = [outcome EXCEPT ![r] =
                     Raise(IF last_exc[r] # "" THEN last_exc[r] ELSE "RuntimeError")]
              /\ pc' = [pc EXCEPT ![r] = "raised"]
              /\ UNCHANGED <<attempt, posts>>
    /\ UNCHANGED <<settings, body, inj_check, redacted_req, prompt_tokens, response,
                   last_exc, upstream_resp, waits, retried, stages, billing>>
    /\ UNCHANGED <<headers, hits>>
    /\ UNCHANGED fnVars
    /\ UNCHANGED logVars

\* Lines 61-62 / 67-68 and 57-59: the sleep is over; the next iteration
\* issues the POST of the next attempt, with the same payload.  Lines
\* 71-74: a loop that runs out raises the last exception, or RuntimeError.
SleepEnds(r) ==
    /\ pc[r] = "sleeping"
    /\ IF attempt[r] < max_attempts
         THEN /\ attempt' = [attempt EXCEPT ![r] = @ + 1]
              /\ posts' = [posts EXCEPT ![r] = Append(@, posts[r][1])]
              /\ outcome' = [outcome EXCEPT ![r] = Pending]
              /\ pc' = [pc EXCEPT ![r] = "posting"]
         ELSE /\ outcome' = [outcome EXCEPT ![r] =
                     Raise(IF last_exc[r] # "" THEN last_exc[r] ELSE "RuntimeError")]
              /\ pc' = [pc EXCEPT ![r] = "raised"]
              /\ UNCHANGED <<attempt, posts>>
    /\ UNCHANGED <<settings, body, inj_check, redacted_req, prompt_tokens, response,
                   last_exc, upstream_resp, waits, retried, stages, billing>>
    /\ UNCHANGED <<headers, hits>>
    /\ UNCHANGED fnVars
    /\ UNCHANGED logVars

(***************************************************************************)
(* src/main.py: chat_completions after the dispatcher.                     *)
(***************************************************************************)
\* Lines 191-204: the answer to an exception of the dispatcher.
UpstreamUnreachable(exc) == ErrorResponse(502, "upstream_unreachable", <<>>, 0)

\* InvalidUpstreamResponse passing the upstream status through as its own.
InvalidUpstreamResponse_StatusPassedThrough(resp) ==
    ErrorResponse(resp.status_code, "invalid_upstream_response", <<>>, resp.status_code)

\* Lines 209-222: the answer to a response whose body is not JSON.
InvalidUpstreamResponse(resp) ==
    ErrorResponse(502, "invalid_upstream_response", <<>>, resp.status_code)

\* Lines 188-190: the answer to a ValueError of the dispatcher: status 400
\* with exc.args[0] as the content, which for an exception of the upstream
\* call is no error object and carries no code.
ValueErrorAnswer(exc) == ErrorResponse(400, "", <<>>, 0)

\* Lines 188-204: the dispatcher raised.  The except clauses are tried in
\* order: a ValueError is answered by line 190, any other exception by
\* line 191.
DispatchRaised(r) ==
    /\ pc[r] = "raised"
    /\ IF outcome[r].exc \in ValueErrors
         THEN /\ response' = [response EXCEPT ![r] = <<ValueErrorAnswer(outcome[r].exc)>>]
              /\ pc' = [pc EXCEPT ![r] = "value_error"]
         ELSE /\ response' = [response EXCEPT ![r] = <<UpstreamUnreachable(outcome[r].exc)>>]
              /\ pc' = [pc EXCEPT ![r] = "upstream_unreachable"]
    /\ stages' = [stages EXCEPT ![r] = Append(@, "return")]
    /\ UNCHANGED <<settings, body, inj_check, redacted_req, prompt_tokens, billing>>
    /\ UNCHANGED dispatchVars
    /\ UNCHANGED <<headers, hits>>
    /\ UNCHANGED fnVars
    /\ UNCHANGED logVars

\* Lines 207-222: parse the body of the returned response.
ParseResponse(r) ==
    /\ pc[r] = "returned"
    /\ IF upstream_resp[r][1].body.json
         THEN /\ pc' = [pc EXCEPT ![r] = "parsed"]
              /\ UNCHANGED <<response, stages>>
         ELSE /\ response' = [response EXCEPT ![r] =
                     <<InvalidUpstreamResponse(upstream_resp[r][1])>>]
              /\ stages' = [stages EXCEPT ![r] = Append(@, "return")]
              /\ pc' = [pc EXCEPT ![r] = "invalid_upstream_response"]
    /\ UNCHANGED <<settings, body, inj_check, redacted_req, prompt_tokens, billing>>
    /\ UNCHANGED dispatchVars
    /\ UNCHANGED <<headers, hits>>
    /\ UNCHANGED fnVars
    /\ UNCHANGED logVars

\* Lines 224-248: estimate and log the completion when the body carries
\* assistant text, then pass the upstream body and status through.
Complete(r) ==
    /\ pc[r] = "parsed"
    /\ LET resp == upstream_resp[r][1]
           completion_text == resp.body.content
       IN  IF completion_text # <<>>
             THEN \E how \in {"ok", "estimate_raises", "log_raises"} :
                    LET completion_tokens ==
                            estimate_tokens(redacted_req[r][1].model, completion_text)
                    IN  /\ billing' = [billing EXCEPT ![r] =
                               IF how = "ok"
                                 THEN Append(@, BillingEvent(prompt_tokens[r], completion_tokens))
                                 ELSE @]
                        /\ stages' = [stages EXCEPT ![r] =
                               CASE how = "ok" -> @ \o <<"estimate_completion", "log", "return">>
                                 [] how = "estimate_raises" -> Append(@, "estimate_completion")
                                 [] how = "log_raises" -> @ \o <<"estimate_completion", "log">>]
                        /\ response' = [response EXCEPT ![r] =
                               IF how = "ok" THEN <<PassThrough(resp)>> ELSE @]
                        /\ pc' = [pc EXCEPT ![r] = IF how = "ok" THEN "completed" ELSE "crashed"]
             ELSE /\ response' = [response EXCEPT ![r] = <<PassThrough(resp)>>]
                  /\ stages' = [stages EXCEPT ![r] = Append(@, "return")]
                  /\ pc' = [pc EXCEPT ![r] = "completed"]
                  /\ UNCHANGED billing
    /\ UNCHANGED <<settings, body, inj_check, redacted_req, prompt_tokens>>
    /\ UNCHANGED dispatchVars
    /\ UNCHANGED <<headers, hits>>
    /\ UNCHANGED fnVars
    /\ UNCHANGED logVars

(***************************************************************************)
(* src/middleware.py: request_logging_middleware, which main.py:39 puts    *)
(* around every request.  call_next returns the response of the handler,   *)
(* or of the exception handler of main.py:41, or raises what the handler   *)
(* raised and nothing handled.                                             *)
(***************************************************************************)
\* The positions at which call_next has ended.
HandlerExits ==
    {"crashed", "rate_limited", "blocked", "completed", "upstream_unreachable",
     "invalid_upstream_response", "value_error"}

\* Lines 41-49: the "request" event.
RequestEvent(status_code) == [event |-> "request", status_code |-> status_code]

\* request_logging_middleware with the event emitted inside the try, after
\* call_next has returned.
request_logging_middleware_LogInTry(r) ==
    /\ pc[r] \in HandlerExits
    /\ mw_exit[r] = ""
    /\ IF pc[r] = "crashed"
         THEN /\ UNCHANGED request_log
              /\ mw_exit' = [mw_exit EXCEPT ![r] = "raise"]
         ELSE /\ request_log' = [request_log EXCEPT ![r] =
                     Append(@, RequestEvent(response[r][1].status_code))]
              /\ mw_exit' = [mw_exit EXCEPT ![r] = "return"]
    /\ UNCHANGED pipelineVars
    /\ UNCHANGED fnVars

\* Lines 34-50: status_code is 500 until call_next has returned a response
\* (line 37); the finally clause emits the event on the way out, by the
\* return of line 38 or by the exception of call_next, which it lets pass.
request_logging_middleware(r) ==
    /\ pc[r] \in HandlerExits
    /\ mw_exit[r] = ""
    /\ LET raised == pc[r] = "crashed"
           status_code == IF raised THEN 500 ELSE response[r][1].status_code
       IN  /\ request_log' = [request_log EXCEPT ![r] = Append(@, RequestEvent(status_code))]
           /\ mw_exit' = [mw_exit EXCEPT ![r] = IF raised THEN "raise" ELSE "return"]
    /\ UNCHANGED pipelineVars
    /\ UNCHANGED fnVars

Next ==
    \E r \in Reqs :
        \/ _validated_body(r)
        \/ limiter_limit(r)
        \/ Scan(r)
        \/ Redact(r)
        \/ EstimatePrompt(r)
        \/ StartDispatch(r)
        \/ PostEnds(r)
        \/ SleepEnds(r)
        \/ DispatchRaised(r)
        \/ ParseResponse(r)
        \/ Complete(r)
        \/ request_logging_middleware(r)

Spec == Init /\ [][Next]_vars

(***************************************************************************)
(* Two requests at once.  The event loop runs one coroutine at a time and  *)
(* switches at an await: the steps of the two executions interleave.  The  *)
(* requests come with or without a client id, from one address, under a    *)
(* limit of one or two requests a minute; the upstream answers a 200 with  *)
(* assistant text or a 503, or the POST times out.                         *)
(***************************************************************************)
ConcurrentBodies ==
    {q \in Requests :
        /\ Len(q.messages) = 1
        /\ q.messages[1].content.kind = "str"
        /\ q.messages[1].role = "user"}

ConcurrentSettings ==
    [block_on_prompt_injection : {FALSE}, enable_presidio : {FALSE}, rate_limit_rpm : {1, 2}]

ConcurrentOutcomes ==
    {o \in Outcomes :
        \/ o.kind = "response" /\ o.status_code = 200 /\ o.body.content # <<>>
        \/ o.kind = "response" /\ o.status_code = 503 /\ o.body.json /\ o.body.content = <<>>
        \/ o.kind = "raise" /\ o.exc = "TimeoutException"}

ConcurrentInit ==
    /\ PipelineInit(Reqs, ConcurrentBodies, [client_id : ClientIds, addr : Addrs],
                    ConcurrentSettings)
    /\ FnIdle

ConcurrentNext ==
    \E r \in Reqs :
        \/ _validated_body(r)
        \/ limiter_limit(r)
        \/ Scan(r)
        \/ Redact(r)
        \/ EstimatePrompt(r)
        \/ StartDispatch(r)
        \/ PostEndsWith(r, ConcurrentOutcomes)
        \/ SleepEnds(r)
        \/ DispatchRaised(r)
        \/ ParseResponse(r)
        \/ Complete(r)

ConcurrentSpec == ConcurrentInit /\ [][ConcurrentNext]_vars

(***************************************************************************)
(* src/security.py called directly: run_guardrails_on_text and            *)
(* _regex_redact on a text, _luhn_check on a digit string.                 *)
(***************************************************************************)
MaxTextLen == 3
FreeDigits == 2
MaxPhraseLen == 3

\* The lexemes the texts are made of.
Lexemes ==
    {"mail", NL, "a@b.com", "10.0.0.1", "4111111111111111", "4111111111111112",
     "411111111111", "1111", "123", "[REDACTED_CREDIT_CARD]"}

Texts == UNION {[1..n -> Lexemes] : n \in 1..MaxTextLen}

\* The words the injection signatures are made of, a neutral word and the
\* newline; Phrases are the texts of up to MaxPhraseLen of them.
PhraseLexemes ==
    {"Ignore", "previous", "instructions", "system", "override", "DAN", "jailbreak",
     "do", "anything", "now", "mail", NL}

Phrases == UNION {[1..n -> PhraseLexemes] : n \in 1..MaxPhraseLen}

\* Digit strings of n digits: FreeDigits neighbouring digits, at any place,
\* take every value; the other digits are fixed.
BaseDigit(i) == (3 * i + 1) % 10

DigitString(n, s, f) ==
    [i \in 1..n |-> IF i >= s /\ i < s + FreeDigits THEN f[i - s + 1] ELSE BaseDigit(i)]

DigitStrings(n) ==
    {DigitString(n, s, f) : s \in 1..(n - FreeDigits + 1), f \in [1..FreeDigits -> 0..9]}

FnInit ==
    /\ PipelineInit({}, Requests, {[client_id |-> "c1", addr |-> "10.1.1.1"]},
                    {c \in Settings : c.block_on_prompt_injection})
    /\ guard_calls = <<>>
    /\ redact_passes = <<>>
    /\ luhn_result = <<>>
    /\ \/ fn_pc = "text" /\ arg_text \in Texts /\ arg_digits = <<>>
       \/ fn_pc = "phrase" /\ arg_text \in Phrases /\ arg_digits = <<>>
       \/ fn_pc = "digits" /\ arg_text = <<>> /\ \E n \in 12..20 : arg_digits \in DigitStrings(n)

\* run_guardrails_on_text(arg_text) under the settings.
CallRunGuardrails ==
    /\ fn_pc \in {"text", "phrase"}
    /\ \E call \in CallsFor(arg_text, settings.enable_presidio) :
         guard_calls' = <<[call |-> call,
                           result |-> run_guardrails_on_text(arg_text,
                                                             settings.enable_presidio, call)]>>
    /\ fn_pc' = "guarded"
    /\ UNCHANGED <<arg_text, arg_digits, redact_passes, luhn_result>>
    /\ UNCHANGED pipelineVars
    /\ UNCHANGED logVars

\* _regex_redact(arg_text).
CallRegexRedact ==
    /\ fn_pc = "text"
    /\ redact_passes' = <<_regex_redact(arg_text)>>
    /\ fn_pc' = "redacted"
    /\ UNCHANGED <<arg_text, arg_digits, guard_calls, luhn_result>>
    /\ UNCHANGED pipelineVars
    /\ UNCHANGED logVars

\* _regex_redact on the text the first call returned.
CallRegexRedactAgain ==
    /\ fn_pc = "redacted"
    /\ redact_passes' = Append(redact_passes, _regex_redact(redact_passes[1].text))
    /\ fn_pc' = "redacted_again"
    /\ UNCHANGED <<arg_text, arg_digits, guard_calls, luhn_result>>
    /\ UNCHANGED pipelineVars
    /\ UNCHANGED logVars

\* _luhn_check(arg_digits).
CallLuhnCheck ==
    /\ fn_pc = "digits"
    /\ luhn_result' = <<_luhn_check(arg_digits)>>
    /\ fn_pc' = "checked"
    /\ UNCHANGED <<arg_text, arg_digits, guard_calls, redact_passes>>
    /\ UNCHANGED pipelineVars
    /\ UNCHANGED logVars

FnNext == CallRunGuardrails \/ CallRegexRedact \/ CallRegexRedactAgain \/ CallLuhnCheck

FnSpec == FnInit /\ [][FnNext]_vars

(***************************************************************************)
(* Properties.                                                             *)
(***************************************************************************)
Started(r) == pc[r] # "idle"
Scanned(r) == stages[r] # <<>>
Joined(r) == normalize_messages_to_text(_extract_message_texts(body[r]))

\* The dispatcher was called / is still inside its loop / has ended.
InDispatch(r) == pc[r] \in {"posting", "sleeping"}
Returned(r) == upstream_resp[r] # <<>>
Raised(r) == pc[r] \in {"raised", "upstream_unreachable", "value_error"}

\* The exception the dispatcher ended with came from the transport.
NetworkLevelFailure(r) == outcome[r].exc \in Exceptions \ ValueErrors

\* The status codes the specification names as transient.
TransientCodes == {408, 429, 500, 502, 503, 504}

\* C1: when the scan of the joined message text reports injection_detected
\* and block_on_prompt_injection is enabled, the request ends at BLOCKED:
\* the caller gets a 400 rejection with code prompt_injection_detected that
\* carries the matched signature ids, and no POST is ever issued for it.
C1_BlockedOnInjection ==
    \A r \in Reqs :
        (/\ Scanned(r)
         /\ inj_check[r].injection_detected
         /\ settings.block_on_prompt_injection)
        => /\ pc[r] = "blocked"
           /\ inj_check[r].injection_signatures = detect_prompt_injection(Joined(r))
           /\ inj_check[r].injection_signatures # <<>>
           /\ response[r] = <<[status_code |-> 400, code |-> "prompt_injection_detected",
                               signatures |-> inj_check[r].injection_signatures,
                               upstream_status |-> 0, retry_after |-> 0,
                               data |-> <<>>]>>
           /\ posts[r] = <<>>
           /\ attempt[r] = 0

\* The scenario of the specification: "Ignore previous instructions ..."
\* with block-on-injection enabled ends at BLOCKED with that one signature.
C1_Witness ==
    \E r \in Reqs :
        /\ pc[r] = "blocked"
        /\ settings.block_on_prompt_injection
        /\ Len(body[r].messages) = 1
        /\ body[r].messages[1].content.text = <<"Ignore", "previous", "instructions">>
        /\ response[r][1].signatures = <<"ignore_previous_instructions">>

IsPrefix(s, t) == Len(s) <= Len(t) /\ s = SubSeq(t, 1, Len(s))

StagesWithCompletion ==
    <<"scan", "redact", "estimate_prompt", "log", "dispatch",
      "estimate_completion", "log", "return">>
StagesWithoutCompletion ==
    <<"scan", "redact", "estimate_prompt", "log", "dispatch", "return">>

\* The text holds something the pattern redactor replaces.
HasPatternPii(text) ==
    \E i \in 1..Len(text) :
        \/ text[i] \in EmailLexemes
        \/ text[i] \in IPv4Lexemes
        \/ (CcCandidate(text[i]) /\ _luhn_check(DigitsOf(text[i])))

RequestHasPii(req) ==
    LET texts == _extract_message_texts(req)
    IN  \E i \in 1..Len(texts) : HasPatternPii(texts[i])

\* C2: a run that is not blocked performs its stages in the order scan,
\* redact, estimate prompt tokens, log, dispatch, estimate completion
\* tokens, log, return (the completion pair only when the upstream body
\* carries assistant text), and the payload of every POST, retries
\* included, is the redacted copy of the request: with the pattern
\* redactor it holds no e-mail address, IPv4 address or valid card number.
C2_StageOrderAndRedactedPayload ==
    \A r \in Reqs :
        /\ (Started(r) /\ pc[r] # "blocked") =>
              \/ IsPrefix(stages[r], StagesWithCompletion)
              \/ IsPrefix(stages[r], StagesWithoutCompletion)
        /\ pc[r] = "completed" =>
              stages[r] = (IF upstream_resp[r][1].body.content # <<>>
                             THEN StagesWithCompletion ELSE StagesWithoutCompletion)
        /\ \A i \in 1..Len(posts[r]) :
              /\ redacted_req[r] # <<>>
              /\ posts[r][i] = redacted_req[r][1]
              /\ ~settings.enable_presidio => ~RequestHasPii(posts[r][i])
              /\ "dispatch" \in {stages[r][k] : k \in 1..Len(stages[r])}

\* A request with PII completes after two retries: three POSTs were issued,
\* none of them with the request as it came in.
C2_Witness ==
    \E r \in Reqs :
        /\ pc[r] = "completed"
        /\ stages[r] = StagesWithCompletion
        /\ Len(posts[r]) = 3
        /\ RequestHasPii(body[r])
        /\ ~settings.enable_presidio
        /\ posts[r][3] # body[r]

\* C3: one call of post_chat_completions issues at most 3 POSTs, exactly
\* one per attempt, whatever the upstream answers, and after the third
\* attempt it has ended: it returned a response or raised.
C3_AtMostThreePosts ==
    \A r \in Reqs :
        /\ Len(posts[r]) = attempt[r]
        /\ attempt[r] <= 3
        /\ Len(waits[r]) <= 2
        /\ (attempt[r] = 3 /\ outcome[r].kind # "pending") =>
              /\ ~InDispatch(r)
              /\ (Returned(r) /\ ~Raised(r)) \/ (Raised(r) /\ ~Returned(r))
        /\ ~(Returned(r) /\ Raised(r))

\* Three POSTs were issued and the third one's response was returned.
C3_Witness ==
    \E r \in Reqs :
        /\ Len(posts[r]) = 3
        /\ attempt[r] = 3
        /\ pc[r] = "returned"
        /\ retried[r] = <<"network", "transient">>

\* The POST of the current attempt of r has been answered with a response /
\* has raised.
Answered(r) == outcome[r].kind = "response"
Failed(r) == outcome[r].kind = "raise"

\* C4: on any attempt, a response whose status is outside {408, 429, 500,
\* 502, 503, 504} is returned at once as it is: no POST and no backoff wait
\* follows it.
C4_NonTransientReturnedAtOnce ==
    \A r \in Reqs :
        (Answered(r) /\ outcome[r].status_code \notin TransientCodes)
        => /\ upstream_resp[r] = <<outcome[r]>>
           /\ ~InDispatch(r) /\ ~Raised(r)
           /\ Len(posts[r]) = attempt[r]
           /\ Len(waits[r]) = attempt[r] - 1

\* A 400 answered on the second attempt has been returned, after one wait.
C4_Witness ==
    \E r \in Reqs :
        /\ attempt[r] = 2
        /\ Answered(r) /\ outcome[r].status_code = 400
        /\ upstream_resp[r] = <<outcome[r]>>
        /\ Len(waits[r]) = 1

\* C5: a response with a status in {408, 429, 500, 502, 503, 504} is never
\* returned from attempt 1 or 2: there it leads to a backoff and another
\* attempt; a transient status reaches the caller only from attempt 3.
C5_TransientOnlyFromThirdAttempt ==
    \A r \in Reqs :
        /\ (Returned(r) /\ upstream_resp[r][1].status_code \in TransientCodes)
              => attempt[r] = 3
        /\ (Answered(r) /\ outcome[r].status_code \in TransientCodes /\ attempt[r] < 3)
              => /\ pc[r] = "sleeping"
                 /\ ~Returned(r)
                 /\ Len(waits[r]) = attempt[r]
                 /\ ENABLED SleepEnds(r)

\* A 503 was returned, from the third attempt.
C5_Witness ==
    \E r \in Reqs :
        /\ Returned(r)
        /\ upstream_resp[r][1].status_code = 503
        /\ attempt[r] = 3
        /\ retried[r] = <<"transient", "transient">>

\* C6: transient statuses followed by a non-transient one within three
\* attempts (503, 503, 200) give the non-transient response after one
\* backoff wait per failed attempt; three transient statuses (500, 500,
\* 500) give the third response and no exception.
C6_RetryThenReturn ==
    \A r \in Reqs :
        (/\ Answered(r)
         /\ \A k \in 1..Len(retried[r]) : retried[r][k] = "transient"
         /\ outcome[r].status_code \notin TransientCodes \/ attempt[r] = 3)
        => /\ upstream_resp[r] = <<outcome[r]>>
           /\ ~Raised(r) /\ pc[r] # "sleeping"
           /\ Len(waits[r]) = Len(retried[r])
           /\ attempt[r] = Len(retried[r]) + 1

\* Two transient statuses and then a 200: the 200 is returned after two waits.
C6_Witness ==
    \E r \in Reqs :
        /\ retried[r] = <<"transient", "transient">>
        /\ Answered(r) /\ outcome[r].status_code = 200
        /\ upstream_resp[r] = <<outcome[r]>>
        /\ Len(waits[r]) = 2

\* C7: when every attempt fails with a timeout or a connection failure, the
\* failure of the third attempt is raised to the caller: a network failure
\* is raised after exactly 3 attempts, never after 1 or 2 or more than 3.
C7_NetworkFailureAfterThreeAttempts ==
    \A r \in Reqs :
        /\ (Failed(r) /\ outcome[r].exc \in NetworkExceptions /\ attempt[r] = 3)
              => /\ Raised(r) /\ ~Returned(r)
                 /\ Len(posts[r]) = 3
        /\ (Failed(r) /\ outcome[r].exc \in NetworkExceptions /\ attempt[r] < 3)
              => pc[r] = "sleeping" /\ last_exc[r] = outcome[r].exc
        /\ (Raised(r) /\ outcome[r].exc \in NetworkExceptions)
              => /\ attempt[r] = 3 /\ Len(posts[r]) = 3
                 /\ last_exc[r] = outcome[r].exc

\* Three timeouts: the timeout is raised after the third POST.
C7_Witness ==
    \E r \in Reqs :
        /\ pc[r] = "raised"
        /\ retried[r] = <<"network", "network">>
        /\ outcome[r].exc = "TimeoutException"
        /\ Len(posts[r]) = 3

\* The failed attempts of r were all followed by the delay base * k.
SameBackoff(r) == \A k \in 1..Len(waits[r]) : waits[r][k] = backoff * k

\* C8: network failures and transient statuses use the same budget of 3
\* attempts: either of them on attempt 1 or 2 is followed by the same
\* backoff and a further attempt, and the third attempt alone decides: its
\* network failure is raised, its response (any status) is returned as is.
C8_SharedRetryBudget ==
    \A r \in Reqs :
        LET transient == Answered(r) /\ outcome[r].status_code \in TransientCodes
            network == Failed(r) /\ outcome[r].exc \in NetworkExceptions
        IN  /\ ((transient \/ network) /\ attempt[r] < 3)
                  => /\ pc[r] = "sleeping"
                     /\ Len(waits[r]) = attempt[r]
                     /\ Len(retried[r]) = attempt[r]
                     /\ SameBackoff(r)
            /\ (network /\ attempt[r] = 3)
                  => Raised(r) /\ ~Returned(r)
            /\ (Answered(r) /\ attempt[r] = 3)
                  => upstream_resp[r] = <<outcome[r]>> /\ ~Raised(r)
            /\ InDispatch(r) => Len(retried[r]) = Len(waits[r])

\* A connection failure, then a transient status, then a response returned.
C8_Witness ==
    \E r \in Reqs :
        /\ retried[r] = <<"network", "transient">>
        /\ last_exc[r] = "NetworkError"
        /\ waits[r] = <<backoff, 2 * backoff>>
        /\ Answered(r) /\ outcome[r].status_code = 500
        /\ upstream_resp[r] = <<outcome[r]>>

\* C9: the wait after failed attempt k is base * k with base = 0.4 s (4 and
\* 8 tenths); waits lie between two attempts only: none before the first
\* attempt, none after the third, none after a returned response.
C9_LinearBackoffBetweenAttempts ==
    \A r \in Reqs :
        /\ waits[r] \in {<<>>, <<4>>, <<4, 8>>}
        /\ attempt[r] <= 1 /\ pc[r] # "sleeping" => waits[r] = <<>>
        /\ pc[r] = "sleeping" => Len(waits[r]) = attempt[r] /\ attempt[r] < 3
        /\ (Started(r) /\ pc[r] # "sleeping" /\ attempt[r] >= 1)
              => Len(waits[r]) = attempt[r] - 1
        /\ Returned(r) => Len(waits[r]) = attempt[r] - 1

\* Two failed attempts, by exception: the waits were 0.4 s and 0.8 s.
C9_Witness ==
    \E r \in Reqs :
        /\ waits[r] = <<4, 8>>
        /\ retried[r] = <<"network", "network">>
        /\ pc[r] = "posting"

\* C10: a dispatcher that ended in a network failure is answered with 502
\* and code upstream_unreachable; a returned response whose body is not
\* JSON is answered with 502 and code invalid_upstream_response, with the
\* upstream status in the error; neither answer carries the upstream body.
C10_GatewayErrorAnswers ==
    \A r \in Reqs :
        /\ (Raised(r) /\ pc[r] # "raised" /\ NetworkLevelFailure(r))
              => response[r] = <<[status_code |-> 502, code |-> "upstream_unreachable",
                                  signatures |-> <<>>, upstream_status |-> 0,
                                  retry_after |-> 0, data |-> <<>>]>>
        /\ (Returned(r) /\ ~upstream_resp[r][1].body.json /\ pc[r] # "returned")
              => /\ pc[r] = "invalid_upstream_response"
                 /\ response[r] # <<>>
                 /\ response[r][1].status_code = 502
                 /\ response[r][1].code = "invalid_upstream_response"
                 /\ response[r][1].upstream_status = upstream_resp[r][1].status_code
                 /\ response[r][1].data = <<>>
        /\ (response[r] # <<>> /\ response[r][1].code = "upstream_unreachable")
              => Raised(r)
        /\ pc[r] = "raised" => ENABLED DispatchRaised(r)
        /\ pc[r] = "returned" => ENABLED ParseResponse(r)

\* A 200 with a body that is not JSON was answered with the 502.
C10_Witness ==
    \E r \in Reqs :
        /\ pc[r] = "invalid_upstream_response"
        /\ upstream_resp[r][1].status_code = 200
        /\ response[r][1].status_code = 502
        /\ response[r][1].upstream_status = 200

\* The handler is through with the response the dispatcher returned.
Handled(r) == Returned(r) /\ pc[r] \notin {"returned", "parsed"}

\* C11: whenever the dispatcher returned a response with a JSON-parseable
\* body, the caller gets exactly that status code and that body, whatever
\* the status code is.
C11_JsonBodyPassedThrough ==
    \A r \in Reqs :
        (Handled(r) /\ upstream_resp[r][1].body.json)
        => /\ response[r] # <<>>
           /\ response[r][1].status_code = upstream_resp[r][1].status_code
           /\ response[r][1].data = <<upstream_resp[r][1].body>>

\* The stable code of the answer a request got; "" when it got none.
CodeOf(r) == IF response[r] = <<>> THEN "" ELSE response[r][1].code

\* C12: no failure class ends a request with an unhandled exception; a
\* request whose body fails validation, that is blocked by policy, that
\* exceeds its rate limit or whose upstream call fails ends with a
\* structured error carrying the stable code of its failure class.
C12_EveryFailureAnswered ==
    \A r \in Reqs :
        /\ pc[r] # "crashed"
        /\ (ValidationError(body[r]) /\ pc[r] \notin {"idle", "received"})
              => CodeOf(r) = "validation_error"
        /\ pc[r] = "rate_limited" => CodeOf(r) = "rate_limit_exceeded"
        /\ pc[r] = "blocked" => CodeOf(r) = "prompt_injection_detected"
        /\ pc[r] = "upstream_unreachable" => CodeOf(r) = "upstream_unreachable"
        /\ pc[r] = "invalid_upstream_response" => CodeOf(r) = "invalid_upstream_response"

\* The delegate failed: its imports, or the engines, analyze or anonymize.
DelegateFailed(call) == call.how \in {"import_error", "runtime_error"}

\* C13: with the delegated redactor enabled, a call of run_guardrails_on_text
\* in which the delegate fails returns a result whose redacted_text and
\* was_redacted are those of the pattern redactor on the same text and
\* whose injection fields are those of a call with the delegate disabled.
C13_DelegateFailureFallsBack ==
    (guard_calls # <<>> /\ settings.enable_presidio /\ DelegateFailed(guard_calls[1].call))
    => LET result == guard_calls[1].result
           pattern == _regex_redact(arg_text)
           disabled == run_guardrails_on_text(arg_text, FALSE, NotCalled)
       IN  /\ result.redacted_text = pattern.text
           /\ result.was_redacted = pattern.was_redacted
           /\ result.injection_detected = disabled.injection_detected
           /\ result.injection_signatures = disabled.injection_signatures
           /\ result = disabled

\* The engines raised on a text holding an e-mail address and a valid card
\* number: both were redacted all the same.
C13_Witness ==
    /\ guard_calls # <<>>
    /\ settings.enable_presidio
    /\ guard_calls[1].call.how = "runtime_error"
    /\ arg_text = <<"a@b.com", "mail", "4111111111111111">>
    /\ guard_calls[1].result.redacted_text =
           <<"[REDACTED_EMAIL]", "mail", "[REDACTED_CREDIT_CARD]">>
    /\ guard_calls[1].result.was_redacted

\* log_billing_simulation was called more often than an event came out: an
\* emission failed.
EmitFailed(r) ==
    Cardinality({i \in 1..Len(stages[r]) : stages[r][i] = "log"}) > Len(billing[r])

\* C14: a failure while emitting a billing-simulation observation, at
\* ESTIMATING or at COMPLETED, does not abort the pipeline: the execution
\* goes on to dispatch the request and to return the upstream's response.
C14_EmitFailureDoesNotAbort ==
    \A r \in Reqs : EmitFailed(r) => pc[r] # "crashed"

\* `new` is a redacted_text the guardrails can return for the text `old`.
RedactedTextOf(old, new) ==
    \E call \in CallsFor(old, settings.enable_presidio) :
        new = run_guardrails_on_text(old, settings.enable_presidio, call).redacted_text

\* The block `new` stands for the block `old`: the same block, but for the
\* text of a "text" block.
SameBlock(old, new) ==
    /\ new.type = old.type
    /\ new.data = old.data
    /\ IF old.type = "text" THEN RedactedTextOf(old.text, new.text) ELSE new = old

\* The content `new` stands for the content `old`.
SameContent(old, new) ==
    /\ new.kind = old.kind
    /\ Len(new.blocks) = Len(old.blocks)
    /\ IF old.kind = "str"
         THEN RedactedTextOf(old.text, new.text) /\ new.blocks = old.blocks
         ELSE /\ new.text = old.text
              /\ \A b \in 1..Len(old.blocks) : SameBlock(old.blocks[b], new.blocks[b])

\* The request `new` differs from `old` in text fields only.
RedactionFrame(old, new) ==
    /\ DOMAIN new = DOMAIN old
    /\ \A f \in DOMAIN old \ {"messages"} : new[f] = old[f]
    /\ Len(new.messages) = Len(old.messages)
    /\ \A m \in 1..Len(old.messages) :
          /\ DOMAIN new.messages[m] = DOMAIN old.messages[m]
          /\ new.messages[m].role = old.messages[m].role
          /\ SameContent(old.messages[m].content, new.messages[m].content)

\* C15: _apply_redaction_to_request leaves the request it is given as it
\* was, and the request it returns has the same messages and blocks in the
\* same order, the same roles, the same non-text blocks and the same fields
\* outside the contents; a string content or the text of a "text" block is
\* the redacted_text of run_guardrails_on_text on the original.  This is
\* so when the function has returned, and neither request changes later.
C15_RedactionFrame ==
    /\ [](\A r \in Reqs :
            pc[r] = "estimating"
                => redacted_req[r] # <<>> /\ RedactionFrame(body[r], redacted_req[r][1]))
    /\ [][\A r \in Reqs :
            /\ body'[r] = body[r]
            /\ redacted_req[r] # <<>> => redacted_req'[r] = redacted_req[r]
            /\ redacted_req'[r] # redacted_req[r] => pc'[r] = "estimating"]_vars

\* A request with a text block holding an IPv4 address and an image block
\* was redacted: the address is gone, the image block is as it was.
C15_Witness ==
    \E r \in Reqs :
        /\ redacted_req[r] # <<>>
        /\ body[r].messages[1].content.kind = "blocks"
        /\ body[r].messages[1].content.blocks[1].text = <<"jailbreak", "10.0.0.1">>
        /\ redacted_req[r][1].messages[1].content.blocks[1].text = <<"jailbreak", "[REDACTED_IP]">>
        /\ redacted_req[r][1].messages[1].content.blocks[2] = ImageBlock("img")
        /\ redacted_req[r][1] # body[r]

\* The answer of request r is an error made by the gateway: it has a code
\* of the gateway and none of the upstream's body.
GatewayError(r) ==
    /\ response[r] # <<>>
    /\ response[r][1].code # ""
    /\ response[r][1].data = <<>>

\* The dispatcher ended with a response whose status is an error that is
\* not transient / whose body is not JSON; it ended after three attempts
\* that all failed at the network level.
NonTransientStatus(r) ==
    /\ Handled(r)
    /\ upstream_resp[r][1].status_code >= 400
    /\ upstream_resp[r][1].status_code \notin TransientCodes
NonJsonBody(r) == Handled(r) /\ ~upstream_resp[r][1].body.json
NetworkExhaustion(r) ==
    /\ pc[r] = "upstream_unreachable"
    /\ outcome[r].exc \in NetworkExceptions
    /\ attempt[r] = 3

\* C16 as stated: every upstream terminal failure (a non-transient error
\* status, network exhaustion, a non-JSON body) that is answered is
\* answered with a gateway-level error, which carries the upstream status
\* when there is one.
C16_TerminalFailuresAreGatewayErrors ==
    \A r \in Reqs :
        /\ NetworkExhaustion(r) => GatewayError(r)
        /\ NonJsonBody(r)
              => GatewayError(r) /\ response[r][1].upstream_status = upstream_resp[r][1].status_code
        /\ (NonTransientStatus(r) /\ response[r] # <<>>)
              => GatewayError(r) /\ response[r][1].upstream_status = upstream_resp[r][1].status_code

\* C16, amended: network exhaustion is answered with the gateway error 502
\* upstream_unreachable, and a body that is not JSON with the gateway error
\* 502 invalid_upstream_response carrying the upstream status; a
\* non-transient error status with a JSON body is never turned into a
\* gateway error: the only answer given for it is the upstream's own status
\* and body.
C16_GatewayErrorsOnlyWithoutJsonBody ==
    \A r \in Reqs :
        /\ NetworkExhaustion(r)
              => /\ GatewayError(r)
                 /\ response[r][1].status_code = 502
                 /\ response[r][1].code = "upstream_unreachable"
        /\ NonJsonBody(r)
              => /\ GatewayError(r)
                 /\ response[r][1].status_code = 502
                 /\ response[r][1].code = "invalid_upstream_response"
                 /\ response[r][1].upstream_status = upstream_resp[r][1].status_code
        /\ (NonTransientStatus(r) /\ upstream_resp[r][1].body.json)
              => /\ ~GatewayError(r)
                 /\ response[r] # <<>>
                       => /\ response[r][1].status_code = upstream_resp[r][1].status_code
                          /\ response[r][1].data = <<upstream_resp[r][1].body>>

\* The upstream rejected the request with a 400 and a JSON body, and the
\* caller got that 400 and that body.
C16_Witness ==
    \E r \in Reqs :
        /\ pc[r] = "completed"
        /\ upstream_resp[r][1].status_code = 400
        /\ upstream_resp[r][1].body.json
        /\ response[r][1].status_code = 400
        /\ response[r][1].code = ""
        /\ response[r][1].data = <<upstream_resp[r][1].body>>

\* The limiter let request r through to the endpoint body.
Admitted(r) ==
    /\ pc[r] \notin {"idle", "received", "limit_check", "rate_limited"}
    /\ ~(pc[r] = "crashed" /\ stages[r] = <<>>)

\* The requests that came under the key k and were let through.
AdmittedUnder(k) == {r \in Reqs : Admitted(r) /\ _key_func(headers[r]) = k}

Slot(q) ==
    <<pc[q], headers[q], body[q], inj_check[q], redacted_req[q], prompt_tokens[q],
      attempt[q], last_exc[q], outcome[q], upstream_resp[q], response[q], posts[q],
      waits[q], retried[q], stages[q], billing[q]>>

\* The execution of request r, wherever it stands from the token estimate
\* to the answer, can take its own next step.
CanStep(r) ==
    /\ pc[r] = "estimating" => ENABLED EstimatePrompt(r)
    /\ pc[r] = "dispatching" => ENABLED StartDispatch(r)
    /\ pc[r] = "posting" => ENABLED PostEndsWith(r, ConcurrentOutcomes)
    /\ pc[r] = "sleeping" => ENABLED SleepEnds(r)
    /\ pc[r] = "raised" => ENABLED DispatchRaised(r)
    /\ pc[r] = "returned" => ENABLED ParseResponse(r)
    /\ pc[r] = "parsed" => ENABLED Complete(r)

\* The outcomes the POSTs of request r have ended with so far, in order:
\* of the retried ones the kind says which it was.
OwnOutcomes(r) ==
    [i \in 1..Len(retried[r]) |->
        IF retried[r][i] = "transient"
          THEN CHOOSE o \in ConcurrentOutcomes : o.kind = "response" /\ o.status_code = 503
          ELSE CHOOSE o \in ConcurrentOutcomes : o.kind = "raise"]
    \o (IF pc[r] = "sleeping" \/ outcome[r].kind = "pending" THEN <<>> ELSE <<outcome[r]>>)

\* The dispatcher run alone against the outcomes seq, from attempt k on: up
\* to three attempts, a transient status or a network failure retried
\* while attempts remain.
RECURSIVE AloneFrom(_, _)
AloneFrom(seq, k) ==
    IF k > Len(seq) THEN [attempts |-> k, ended |-> "no", last |-> Pending]
    ELSE IF k < 3 /\ seq[k].kind = "response" /\ seq[k].status_code \in TransientCodes
      THEN AloneFrom(seq, k + 1)
    ELSE IF k < 3 /\ seq[k].kind = "raise" /\ seq[k].exc \in NetworkExceptions
      THEN AloneFrom(seq, k + 1)
    ELSE [attempts |-> k,
          ended |-> IF seq[k].kind = "response" THEN "returned" ELSE "raised",
          last |-> seq[k]]

\* The payload a lone run of request r dispatches: its own body, redacted.
AlonePayload(r) ==
    _apply_redaction_to_request(body[r], FALSE,
        [k \in 1..Len(_extract_message_texts(body[r])) |-> NotCalled])

\* Request r stands where a lone run against its own outcomes stands.
AsAlone(r) ==
    LET alone == AloneFrom(OwnOutcomes(r), 1)
    IN  /\ attempt[r] = 0 => posts[r] = <<>> /\ response[r] \in {<<>>} \cup
                                {<<rate_limit_exceeded_handler(e)>> : e \in RateLimitExceptions}
        /\ attempt[r] >= 1 =>
              /\ attempt[r] = IF pc[r] = "sleeping" THEN alone.attempts - 1 ELSE alone.attempts
              /\ Len(posts[r]) = attempt[r]
              /\ \A i \in 1..Len(posts[r]) : posts[r][i] = AlonePayload(r)
              /\ alone.ended = "no" <=> pc[r] \in {"posting", "sleeping"}
              /\ alone.ended = "raised" <=> pc[r] \in {"raised", "upstream_unreachable"}
              /\ pc[r] = "upstream_unreachable"
                    => /\ response[r] # <<>>
                       /\ response[r][1].status_code = 502
                       /\ response[r][1].code = "upstream_unreachable"
              /\ pc[r] = "completed"
                    => /\ response[r] # <<>>
                       /\ response[r][1].status_code = alone.last.status_code
                       /\ response[r][1].data = <<alone.last.body>>
              /\ pc[r] \notin {"upstream_unreachable", "completed"} => response[r] = <<>>

\* C18: two executions interleaved at their suspension points are
\* independent.  Each stands, with its attempt count, its dispatched
\* payloads and its response, where a lone run of its request against its
\* own upstream outcomes stands; a step of one changes nothing the other
\* holds; and whatever the other is waiting for, a POST or a backoff, an
\* execution in or around the dispatcher can take its next step.
C18_ConcurrentExecutionsIndependent ==
    /\ [](\A r \in Reqs : AsAlone(r) /\ CanStep(r))
    /\ [][\E r \in Reqs : \A q \in Reqs \ {r} : Slot(q)' = Slot(q)]_vars

\* While one request sleeps its second backoff, the other, which started
\* later and was retried once, has completed with its own 200.
C18_Witness ==
    /\ pc["r1"] = "sleeping" /\ attempt["r1"] = 2
    /\ pc["r2"] = "completed" /\ attempt["r2"] = 2
    /\ retried["r2"] = <<"network">>
    /\ response["r2"][1].status_code = 200
    /\ posts["r1"][1] # posts["r2"][1]

\* The Luhn sum of the last p digits, counted from the end: every second
\* digit, starting with the second-to-last, is doubled, and 9 is taken off
\* a doubled digit above 9.
RECURSIVE LuhnFromEnd(_, _)
LuhnFromEnd(digits, p) ==
    IF p = 0 THEN 0
    ELSE LET d == digits[Len(digits) - p + 1]
             doubled == IF 2 * d > 9 THEN 2 * d - 9 ELSE 2 * d
         IN  (IF p % 2 = 0 THEN doubled ELSE d) + LuhnFromEnd(digits, p - 1)

LuhnValid(digits) == LuhnFromEnd(digits, Len(digits)) % 10 = 0

\* The place of the first run of digits in a text, 0 when it has none.
FirstDigits(text) ==
    IF \E i \in 1..Len(text) : DigitsOf(text[i]) # <<>>
      THEN CHOOSE i \in 1..Len(text) :
              /\ DigitsOf(text[i]) # <<>>
              /\ \A h \in 1..(i - 1) : DigitsOf(text[h]) = <<>>
      ELSE 0

\* The last lexeme of the card candidate that starts at the first run of
\* digits of a text, 0 when the pattern matches nothing there.
FirstCandidateEnd(text) ==
    IF FirstDigits(text) = 0 THEN 0
    ELSE CcMatchEnd(text, FirstDigits(text), Len(DigitsOf(text[FirstDigits(text)])))

\* C19: for every digit sequence of 13 to 19 digits _luhn_check is true
\* exactly when the Luhn sum counted from the end is divisible by 10; and
\* the first card candidate the pattern matches in a text is replaced by
\* [REDACTED_CREDIT_CARD] when its digits pass the check and stands in the
\* output lexeme for lexeme when they fail.
C19_LuhnDecidesCardRedaction ==
    /\ fn_pc = "checked" /\ Len(arg_digits) \in 13..19
          => luhn_result[1] = LuhnValid(arg_digits)
    /\ fn_pc = "redacted" /\ FirstCandidateEnd(arg_text) # 0
          => LET i == FirstDigits(arg_text)
                 j == FirstCandidateEnd(arg_text)
                 out == redact_passes[1].text
             IN  IF LuhnValid(Compact(SubSeq(arg_text, i, j)))
                   THEN /\ Len(out) >= i
                        /\ out[i] = "[REDACTED_CREDIT_CARD]"
                        /\ redact_passes[1].was_redacted
                   ELSE /\ Len(out) >= j
                        /\ SubSeq(out, i, j) = SubSeq(arg_text, i, j)

\* A 16-digit run that fails the check stands as it was, and the card
\* written in two groups after it, which passes, is replaced as a whole.
C19_Witness ==
    /\ fn_pc = "redacted"
    /\ arg_text = <<"4111111111111112", "411111111111", "1111">>
    /\ redact_passes[1].text = <<"4111111111111112", "[REDACTED_CREDIT_CARD]">>

\* C20: pattern redaction is idempotent.  _regex_redact applied to the
\* text _regex_redact returned gives that text back with was_redacted
\* false.
C20_RegexRedactIdempotent ==
    fn_pc = "redacted_again"
        => redact_passes[2] = [text |-> redact_passes[1].text, was_redacted |-> FALSE]

\* A text with an email address, an IPv4 address and a card was redacted
\* to the three sentinels, and the second pass left them as they were.
C20_Witness ==
    /\ fn_pc = "redacted_again"
    /\ arg_text = <<"a@b.com", "10.0.0.1", "4111111111111111">>
    /\ redact_passes[1] = [text |-> <<"[REDACTED_EMAIL]", "[REDACTED_IP]",
                                      "[REDACTED_CREDIT_CARD]">>,
                           was_redacted |-> TRUE]
    /\ ~redact_passes[2].was_redacted

\* The identifiers in a list of hits.
HitSet(sigs) == {sigs[i] : i \in 1..Len(sigs)}

\* C21: detect_prompt_injection searches for every signature of the table,
\* whatever the others found: the GuardrailResult of a text lists exactly
\* the identifiers of the signatures whose pattern matches the text, each
\* once, and injection_detected is true exactly when the list is not empty.
C21_AllMatchingSignaturesOnce ==
    fn_pc = "guarded"
        => LET res == guard_calls[1].result
               sigs == res.injection_signatures
           IN  /\ \A k \in 1..Len(_PROMPT_INJECTION_SIGNATURES) :
                     LET sig_id == _PROMPT_INJECTION_SIGNATURES[k]
                     IN  sig_id \in HitSet(sigs) <=> MatchesSignature(sig_id, arg_text)
               /\ Cardinality(HitSet(sigs)) = Len(sigs)
               /\ res.injection_detected <=> sigs # <<>>

\* A text matching two signatures, the second and the third of the table,
\* was scanned: both are listed, once each.
C21_Witness ==
    /\ fn_pc = "guarded"
    /\ arg_text = <<"system", "override", "DAN">>
    /\ guard_calls[1].result.injection_signatures = <<"system_override", "dan">>
    /\ guard_calls[1].result.injection_detected

\* The POST of request r ended with an exception that is neither a timeout
\* nor a network error.
OtherException(r) ==
    outcome[r].kind = "raise" /\ outcome[r].exc \in Exceptions \ NetworkExceptions

\* C22: an exception of the upstream POST that is neither a timeout nor a
\* network error is not retried.  The dispatcher raises it on the attempt
\* where it occurred, with no further POST and no backoff wait, and the
\* pipeline answers 502 with code upstream_unreachable.
C22_OtherExceptionAnswered502 ==
    \A r \in Reqs :
        OtherException(r)
            => /\ Raised(r) /\ ~Returned(r)
               /\ Len(posts[r]) = attempt[r]
               /\ Len(waits[r]) = attempt[r] - 1
               /\ Len(retried[r]) = attempt[r] - 1
               /\ pc[r] # "raised"
                     => /\ response[r] # <<>>
                        /\ response[r][1].status_code = 502
                        /\ response[r][1].code = "upstream_unreachable"

\* C23: a request emits at most two billing_simulation observations.  A
\* blocked request emits none; the first, with the prompt estimate only,
\* is out before the first POST; the second, with the prompt and the
\* completion estimate, is emitted only once the dispatcher has returned a
\* JSON body with assistant text in it, and never on the exits
\* upstream_unreachable and invalid_upstream_response.
C23_BillingObservations ==
    \A r \in Reqs :
        /\ Len(billing[r]) <= 2
        /\ pc[r] = "blocked" => billing[r] = <<>>
        /\ posts[r] # <<>> => billing[r] # <<>>
        /\ billing[r] # <<>>
              => /\ billing[r][1] = BillingEvent(prompt_tokens[r], -1)
                 /\ redacted_req[r] # <<>>
        /\ Len(billing[r]) = 2
              => /\ Returned(r)
                 /\ upstream_resp[r][1].body.json
                 /\ upstream_resp[r][1].body.content # <<>>
                 /\ billing[r][2].prompt_tokens_estimated = prompt_tokens[r]
                 /\ billing[r][2].completion_tokens_estimated
                       = estimate_tokens(redacted_req[r][1].model,
                                         upstream_resp[r][1].body.content)
                 /\ billing[r][2].completion_tokens_estimated > 0
                 /\ pc[r] = "completed"
        /\ pc[r] \in {"upstream_unreachable", "invalid_upstream_response"}
              => Len(billing[r]) = 1

\* A request answered on the second attempt with a 200 whose body carries
\* assistant text: two observations, the second with both estimates.
C23_Witness ==
    \E r \in Reqs :
        /\ pc[r] = "completed"
        /\ attempt[r] = 2
        /\ Len(billing[r]) = 2
        /\ billing[r][1].completion_tokens_estimated = -1
        /\ billing[r][2].completion_tokens_estimated = 2

\* C24: request_logging_middleware emits exactly one "request" event for
\* each request, whichever way the handler is left.  When the handler gave
\* a response the event carries its status code and the response is
\* returned; when the handler raised the event carries 500 and the
\* exception goes on.  No event is out before the handler has ended, and
\* once it has ended the middleware can always emit.
C24_OneRequestEventOnEveryExit ==
    \A r \in Reqs :
        /\ Len(request_log[r]) <= 1
        /\ request_log[r] # <<>> <=> mw_exit[r] # ""
        /\ mw_exit[r] # ""
              => /\ pc[r] \in HandlerExits
                 /\ request_log[r][1].event = "request"
        /\ mw_exit[r] = "return"
              => /\ response[r] # <<>>
                 /\ request_log[r][1].status_code = response[r][1].status_code
        /\ mw_exit[r] = "raise"
              => /\ response[r] = <<>>
                 /\ request_log[r][1].status_code = 500
        /\ (pc[r] \in HandlerExits /\ mw_exit[r] = "")
              => ENABLED request_logging_middleware(r)
        /\ (pc[r] \notin HandlerExits \cup {"idle"}) => request_log[r] = <<>>

\* The handler raised after the upstream had answered 200 (the second
\* billing event could not be written): one event, with 500, and the
\* exception went on.
C24_Witness ==
    \E r \in Reqs :
        /\ pc[r] = "crashed"
        /\ Returned(r) /\ upstream_resp[r][1].status_code = 200
        /\ request_log[r] = <<RequestEvent(500)>>
        /\ mw_exit[r] = "raise"

====
